---------------------------- MODULE Spec2Model ----------------------------
(***************************************************************************)
(* A model of yt/lagos/PointCombine.c: the kernels CombineGrids,           *)
(* Bin2DProfile, DataCubeRefine / DataCubeReplace and Interpolate.         *)
(*                                                                         *)
(* Arrays are functions over 0..n-1, indexed as in the C code.  float64    *)
(* values are modelled by integers (all sums in the model are exact).      *)
(* Every kernel call is one action; its loops are RECURSIVE operators that *)
(* follow the loops of the code.  Each kernel has a specification of its   *)
(* own (SpecMerge, SpecBin, SpecCube, SpecInterp) whose Init draws the     *)
(* kernel's arguments; the variables of the other kernels stay idle.       *)
(* SpecArgs is CombineGrids again, called with arguments that the checks   *)
(* of Py_CombineGrids may reject.                                          *)
(***************************************************************************)
EXTENDS Integers, Sequences, FiniteSets, TLC

VARIABLES
    \* ---- CombineGrids: the caller's buffers and the return value
    src_x, src_y, src_mask, src_wgt, src_vals,
    dst_x, dst_y, dst_mask, dst_wgt, dst_vals,
    refinement_factor, num_found,
    m_calls,       \* number of CombineGrids calls made on these buffers
    m_pre,         \* the mutable buffers as they were before the latest call
    m_log,         \* the matches of the latest call, in the order they happened
    m_oob,         \* the latest call read src_wgt outside 0..src_len-1
    \* ---- Bin2DProfile: the caller's arrays, element by element
    bins_x, bins_y, wsource, bsource, wresult, bresult, used,
    big_endian,    \* the platform stores the most significant byte first
    char_signed,   \* the platform's plain char is signed
    b_calls,       \* number of Bin2DProfile calls made on these arrays
    b_pre,         \* the accumulators as they were before the latest call
    \* ---- DataCubeRefine / DataCubeReplace: the caller's arrays
    g_le, g_dx, g_dims, g_data, g_cm,
    c_le, c_re, c_dx, c_dims, c_data,
    ll,            \* the last argument: nonzero to include non-leaf cells
    total,         \* the return value of the latest call
    fp_err,        \* rounding of the x-axis index quotients (see FloorQuot)
    c_calls,       \* the calls made on these arrays, in order
    c_pre,         \* g_data and c_data as they were before the latest call
    c_log,         \* the (source cell, cube cell) pairs of the latest call, in order
    \* ---- Interpolate: the caller's arrays
    axis, table, desiredvals, columns, outputvals,
    t_result,      \* how the latest Interpolate call ended: "none", "ok", "error"
    t_calls,       \* number of Interpolate calls made on these arrays
    t_log,         \* the bracket rows read for each query of the latest call
    t_oob,         \* the latest call read a table row outside 0..m-1
    \* ---- Py_CombineGrids as a whole
    m_result       \* how the latest call ended: "none", "ok", "error", "crash"

mergeVars == << src_x, src_y, src_mask, src_wgt, src_vals,
                dst_x, dst_y, dst_mask, dst_wgt, dst_vals,
                refinement_factor, num_found, m_calls, m_pre, m_log, m_oob >>

binVars == << bins_x, bins_y, wsource, bsource, wresult, bresult, used,
              big_endian, char_signed, b_calls, b_pre >>

cubeVars == << g_le, g_dx, g_dims, g_data, g_cm, c_le, c_re, c_dx, c_dims,
               c_data, ll, total, fp_err, c_calls, c_pre, c_log >>

interpVars == << axis, table, desiredvals, columns, outputvals,
                 t_result, t_calls, t_log, t_oob >>

vars == << mergeVars, binVars, cubeVars, interpVars, m_result >>

-----------------------------------------------------------------------------
(* Bounds of the model *)

MaxSrc == 2         \* src_len ranges over 0..MaxSrc
MaxDst == 4         \* dst_len ranges over 0..MaxDst
MaxCalls == 2       \* repeated calls on the same buffers
MaxSamples == 2     \* Bin2DProfile: the number of samples ranges over 0..MaxSamples
MaxGridDim == 2     \* DataCube: source cells along x range over 1..MaxGridDim
MaxCubeDim == 2     \* DataCube: cube cells along x range over 1..MaxCubeDim
MaxQueries == 2     \* Interpolate: the number of queries ranges over 1..MaxQueries
NumCols == 2        \* Interpolate: the table has NumCols columns

Range(n) == 0 .. (n - 1)

Size(a) == Cardinality(DOMAIN a)

RECURSIVE SumOver(_, _)
SumOver(S, f) ==
    IF S = {} THEN 0
    ELSE LET e == CHOOSE e \in S : TRUE IN f[e] + SumOver(S \ {e}, f)

-----------------------------------------------------------------------------
(* CombineGrids, PointCombine.c lines 43-257 *)

\* What a read of src_wgt outside the array may return.  Such a read needs a
\* destination index di >= src_len, so it can only happen when dst_len > src_len.
JunkVals == IF Size(dst_x) > Size(src_x) THEN {0, 9} ELSE {0}

\* C truth value of an integer, and the int a C logical expression yields.
Truthy(v) == v # 0
CBool(b) == IF b THEN 1 ELSE 0

\* Mutant of SrcWgtRead: the addend is the destination's own weight.
SrcWgtRead_dstOwn(di, junk) == dst_wgt[di]

\* Line 198: the addend read for destination index di.  src_wgt is indexed
\* by di, the destination index; for di >= src_len the read is outside the
\* array and yields an arbitrary value.
SrcWgtRead(di, junk) ==
    IF di \in DOMAIN src_wgt THEN src_wgt[di] ELSE junk

\* Mutant of MaskCombine: the masks are ANDed whatever the refinement factor.
MaskCombine_alwaysAnd(smask, dmask) == CBool(Truthy(smask) /\ Truthy(dmask))

\* Lines 199-200.
MaskCombine(smask, dmask) ==
    CBool((Truthy(smask) /\ Truthy(dmask))
          \/ ((refinement_factor # 1) /\ Truthy(dmask)))

\* Mutant of Consume: the matched source point is left valid.
Consume_keep(sx, si) == sx

\* Line 203.
Consume(sx, si) == [sx EXCEPT ![si] = -1]

\* Mutant of AddChannels: the channel value is overwritten, not accumulated.
AddChannels_overwrite(dv, si, di) ==
    [c \in DOMAIN dv |-> [dv[c] EXCEPT ![di] = src_vals[c][si]]]

\* Lines 204-206.
AddChannels(dv, si, di) ==
    [c \in DOMAIN dv |-> [dv[c] EXCEPT ![di] = dv[c][di] + src_vals[c][si]]]

\* Lines 197-206: the body run on a match of source si and destination di.
MatchBody(st, si, di, junk) ==
    LET add   == SrcWgtRead(di, junk)
        nmask == MaskCombine(src_mask[si], st.dm[di])
    IN [ sx  |-> Consume(st.sx, si),
         dw  |-> [st.dw EXCEPT ![di] = st.dw[di] + add],
         dm  |-> [st.dm EXCEPT ![di] = nmask],
         dv  |-> AddChannels(st.dv, si, di),
         nf  |-> st.nf + 1,
         oob |-> st.oob \/ (di \notin DOMAIN src_wgt),
         log |-> Append(st.log,
                   [ si |-> si, di |-> di,
                     old_wgt |-> st.dw[di], new_wgt |-> st.dw[di] + add,
                     old_mask |-> st.dm[di], new_mask |-> nmask ]) ]

\* Mutant of BreakAfterMatch: the scan stops at the first match for every r.
BreakAfterMatch_always == TRUE

\* Line 207.
BreakAfterMatch == refinement_factor = 1

\* Lines 193-209: the scan of the destination points for one fine coordinate.
RECURSIVE ScanDst(_, _, _, _, _, _)
ScanDst(st, si, fine_x, fine_y, di, junk) ==
    IF di >= Size(dst_x) THEN st
    ELSE IF dst_x[di] < 0 THEN ScanDst(st, si, fine_x, fine_y, di + 1, junk)
    ELSE IF (fine_x = dst_x[di]) /\ (fine_y = dst_y[di])
         THEN LET hit == MatchBody(st, si, di, junk)
              IN IF BreakAfterMatch THEN hit
                 ELSE ScanDst(hit, si, fine_x, fine_y, di + 1, junk)
    ELSE ScanDst(st, si, fine_x, fine_y, di + 1, junk)

\* Lines 189-211: the sub-offsets (x_off, y_off), numbered off = x_off*r + y_off.
RECURSIVE ScanOffsets(_, _, _, _, _, _)
ScanOffsets(st, si, init_x, init_y, off, junk) ==
    IF off >= refinement_factor * refinement_factor THEN st
    ELSE LET x_off == off \div refinement_factor
             y_off == off % refinement_factor
         IN ScanOffsets(ScanDst(st, si, init_x + x_off, init_y + y_off, 0, junk),
                        si, init_x, init_y, off + 1, junk)

\* Lines 185-212: the loop over the source points.
RECURSIVE ScanSrc(_, _, _)
ScanSrc(st, si, junk) ==
    IF si >= Size(src_x) THEN st
    ELSE IF st.sx[si] < 0 THEN ScanSrc(st, si + 1, junk)
    ELSE ScanSrc(ScanOffsets(st, si, refinement_factor * st.sx[si],
                             refinement_factor * src_y[si], 0, junk),
                 si + 1, junk)

MutableBuffers ==
    [ src_x |-> src_x, dst_wgt |-> dst_wgt, dst_mask |-> dst_mask,
      dst_vals |-> dst_vals, num_found |-> num_found ]

\* Py_CombineGrids on the current buffers (all lengths consistent, at least
\* one channel): the merge loop, then the return of num_found.
CombineGrids ==
    /\ m_calls < MaxCalls
    /\ \E junk \in JunkVals :
         \E st \in { ScanSrc([ sx |-> src_x, dw |-> dst_wgt, dm |-> dst_mask,
                               dv |-> dst_vals, nf |-> 0, oob |-> FALSE,
                               log |-> << >> ], 0, junk) } :
            /\ src_x' = st.sx
            /\ dst_wgt' = st.dw
            /\ dst_mask' = st.dm
            /\ dst_vals' = st.dv
            /\ num_found' = st.nf
            /\ m_oob' = st.oob
            /\ m_log' = st.log
    /\ m_pre' = MutableBuffers
    /\ m_calls' = m_calls + 1
    /\ UNCHANGED << src_y, src_mask, src_wgt, src_vals, dst_x, dst_y,
                    refinement_factor >>

\* The arguments of the model's calls.
\* A source point is consumed (x = -1) or a coarse cell.
SrcPoints == { << -1, 0 >>, << 0, 0 >>, << 0, 1 >> }

\* Destination entry j is fine cell j (row-major, two cells per row), or that
\* cell consumed (x = -1), or a duplicate of fine cell (0, 0).
DstCell(j) == << j \div 2, j % 2 >>
DstKinds == {"cell", "consumed", "duplicate"}
DstPoint(j, kind) ==
    CASE kind = "cell" -> DstCell(j)
      [] kind = "consumed" -> << -1, j % 2 >>
      [] kind = "duplicate" -> << 0, 0 >>

\* Same-level merges (r = 1) and merges across one level (r = 2).
RefinementFactors == {1, 2}

MaskVals == {0, 1, 2}
NumArrays == 2

MergeIdle ==
    /\ src_x = << >> /\ src_y = << >> /\ src_mask = << >> /\ src_wgt = << >>
    /\ src_vals = << >>
    /\ dst_x = << >> /\ dst_y = << >> /\ dst_mask = << >> /\ dst_wgt = << >>
    /\ dst_vals = << >>
    /\ refinement_factor = 1 /\ num_found = 0
    /\ m_calls = 0 /\ m_pre = << >> /\ m_log = << >> /\ m_oob = FALSE

BinIdle ==
    /\ bins_x = << >> /\ bins_y = << >> /\ wsource = << >> /\ bsource = << >>
    /\ wresult = << >> /\ bresult = << >> /\ used = << >>
    /\ big_endian = FALSE /\ char_signed = TRUE
    /\ b_calls = 0 /\ b_pre = << >>

CubeIdle ==
    /\ g_le = << >> /\ g_dx = << >> /\ g_dims = << >> /\ g_data = << >>
    /\ g_cm = << >>
    /\ c_le = << >> /\ c_re = << >> /\ c_dx = << >> /\ c_dims = << >>
    /\ c_data = << >>
    /\ ll = 0 /\ total = 0 /\ fp_err = << >>
    /\ c_calls = << >> /\ c_pre = << >> /\ c_log = << >>

InterpIdle ==
    /\ axis = << >> /\ table = << >> /\ desiredvals = << >> /\ columns = << >>
    /\ outputvals = << >>
    /\ t_result = "none" /\ t_calls = 0 /\ t_log = << >> /\ t_oob = FALSE

InitMerge ==
    /\ BinIdle
    /\ CubeIdle
    /\ InterpIdle
    /\ m_result = "none"
    /\ refinement_factor \in RefinementFactors
    /\ \E src_len \in 0 .. MaxSrc, dst_len \in 0 .. MaxDst, mrot \in MaskVals :
         /\ \E sp \in [Range(src_len) -> SrcPoints] :
              /\ src_x = [i \in Range(src_len) |-> sp[i][1]]
              /\ src_y = [i \in Range(src_len) |-> sp[i][2]]
         /\ \E dk \in [Range(dst_len) -> DstKinds] :
              /\ dst_x = [j \in Range(dst_len) |-> DstPoint(j, dk[j])[1]]
              /\ dst_y = [j \in Range(dst_len) |-> DstPoint(j, dk[j])[2]]
         /\ src_mask = [i \in Range(src_len) |-> (i + mrot) % 3]
         /\ dst_mask = [j \in Range(dst_len) |-> (j + 2 * mrot) % 3]
         /\ src_wgt = [i \in Range(src_len) |-> 2 + i]
         /\ dst_wgt = [j \in Range(dst_len) |-> 1 + 3 * j]
         /\ src_vals = [c \in Range(NumArrays) |->
                          [i \in Range(src_len) |-> (c + 1) * (i + 1)]]
         /\ dst_vals = [c \in Range(NumArrays) |->
                          [j \in Range(dst_len) |-> 10 * (c + 1) + j]]
    /\ num_found = 0
    /\ m_calls = 0
    /\ m_pre = MutableBuffers
    /\ m_log = << >>
    /\ m_oob = FALSE

NextMerge ==
    CombineGrids /\ UNCHANGED << binVars, cubeVars, interpVars, m_result >>

SpecMerge == InitMerge /\ [][NextMerge]_vars

\* Lines 74-141: the checks of Py_CombineGrids in the order the code makes
\* them; the name of the first one that fails, or "none".  The lengths of the
\* value channels are not compared with anything.
FailedCheck ==
    IF Size(src_y) # Size(src_x) THEN "src_y"
    ELSE IF Size(src_mask) # Size(src_x) THEN "src_mask"
    ELSE IF Size(src_wgt) # Size(src_x) THEN "src_wgt"
    ELSE IF Size(dst_y) # Size(dst_x) THEN "dst_y"
    ELSE IF Size(dst_mask) # Size(dst_x) THEN "dst_mask"
    ELSE IF Size(dst_wgt) # Size(dst_x) THEN "dst_wgt"
    ELSE IF Size(src_vals) < 1 THEN "no_channels"
    ELSE IF Size(dst_vals) # Size(src_vals) THEN "channel_count"
    ELSE "none"

\* Lines 239-255: the _fail path.  It releases all eight array pointers and,
\* when NumArrays > 0, the entries of grid_src_vals and grid_dst_vals.  After
\* the NumArrays < 1 check all of these are initialised or skipped; after any
\* other check some of them (the arrays not yet converted, NumArrays, or the
\* grid_src_vals pointer) are uninitialised, and releasing them either
\* does nothing or brings the process down.
FailOutcomes(check) ==
    IF check = "no_channels" THEN {"error"} ELSE {"error", "crash"}

\* Py_CombineGrids, lines 43-257: the checks, then the merge loop of
\* CombineGrids or the _fail path.
Py_CombineGrids ==
    /\ m_result # "crash"
    /\ IF FailedCheck # "none"
       THEN /\ m_calls < MaxCalls
            /\ m_result' \in FailOutcomes(FailedCheck)
            /\ m_calls' = m_calls + 1
            /\ m_pre' = MutableBuffers
            /\ m_log' = << >>
            /\ m_oob' = FALSE
            /\ UNCHANGED << src_x, src_y, src_mask, src_wgt, src_vals,
                            dst_x, dst_y, dst_mask, dst_wgt, dst_vals,
                            refinement_factor, num_found >>
       ELSE /\ CombineGrids
            /\ m_result' = "ok"

\* The arguments of these calls: those of InitMerge without consumed or
\* duplicate destination entries, and with at most one defect, an array that
\* is one element longer than the x array of its point set, an empty channel
\* list, or a destination channel list of another length than the source's.
Defects ==
    { "none", "src_y", "src_mask", "src_wgt", "dst_y", "dst_mask", "dst_wgt",
      "no_channels", "channel_count", "src_channel", "dst_channel" }

Extend(a, v) == [i \in Range(Size(a) + 1) |-> IF i \in DOMAIN a THEN a[i] ELSE v]

Defective(name, defect, a) == IF defect = name THEN Extend(a, 0) ELSE a

InitArgs ==
    /\ BinIdle
    /\ CubeIdle
    /\ InterpIdle
    /\ m_result = "none"
    /\ refinement_factor \in RefinementFactors
    /\ \E src_len \in 1 .. MaxSrc, dst_len \in 0 .. MaxDst, defect \in Defects :
         /\ \E sp \in [Range(src_len) -> SrcPoints] :
              /\ src_x = [i \in Range(src_len) |-> sp[i][1]]
              /\ src_y = Defective("src_y", defect,
                                   [i \in Range(src_len) |-> sp[i][2]])
         /\ dst_x = [j \in Range(dst_len) |-> DstCell(j)[1]]
         /\ dst_y = Defective("dst_y", defect,
                              [j \in Range(dst_len) |-> DstCell(j)[2]])
         /\ src_mask = Defective("src_mask", defect,
                                 [i \in Range(src_len) |-> i % 3])
         /\ dst_mask = Defective("dst_mask", defect,
                                 [j \in Range(dst_len) |-> j % 3])
         /\ src_wgt = Defective("src_wgt", defect,
                                [i \in Range(src_len) |-> 2 + i])
         /\ dst_wgt = Defective("dst_wgt", defect,
                                [j \in Range(dst_len) |-> 1 + 3 * j])
         /\ src_vals =
              [c \in Range(IF defect = "no_channels" THEN 0 ELSE NumArrays) |->
                 IF defect = "src_channel" /\ c = 0
                 THEN [i \in Range(src_len + 1) |-> (c + 1) * (i + 1)]
                 ELSE [i \in Range(src_len) |-> (c + 1) * (i + 1)]]
         /\ dst_vals =
              [c \in Range(CASE defect = "no_channels" -> 0
                             [] defect = "channel_count" -> NumArrays + 1
                             [] OTHER -> NumArrays) |->
                 IF defect = "dst_channel" /\ c = 0
                 THEN [j \in Range(dst_len + 1) |-> 10 * (c + 1) + j]
                 ELSE [j \in Range(dst_len) |-> 10 * (c + 1) + j]]
    /\ num_found = 0
    /\ m_calls = 0
    /\ m_pre = MutableBuffers
    /\ m_log = << >>
    /\ m_oob = FALSE

NextArgs == Py_CombineGrids /\ UNCHANGED << binVars, cubeVars, interpVars >>

SpecArgs == InitArgs /\ [][NextArgs]_vars

-----------------------------------------------------------------------------
(* Bin2DProfile, PointCombine.c lines 271-383 *)

\* The accumulators are NumBinsX by NumBinsY arrays.
NumBinsX == 2
NumBinsY == 2

RECURSIVE Pow2(_)
Pow2(e) == IF e = 0 THEN 1 ELSE 2 * Pow2(e - 1)

RECURSIVE Log2(_)
Log2(v) == IF v < 2 THEN 0 ELSE 1 + Log2(v \div 2)

\* Byte k (k = 0 the most significant) of the 64-bit two's complement
\* representation of v, for 0 <= v < 2^31.
Int64ByteMSB(v, k) ==
    IF k < 4 THEN 0 ELSE (v \div Pow2(8 * (7 - k))) % 256

\* Byte k (k = 0 the most significant) of the IEEE 754 binary64 representation
\* of the integer v, for 0 <= v < 32: sign 0, biased exponent 1023 + e with
\* e = floor(log2 v), and the fraction (v - 2^e) / 2^e in the top bits of the
\* 52-bit mantissa.
Float64ByteMSB(v, k) ==
    IF v = 0 THEN 0
    ELSE LET e    == Log2(v)
             bexp == 1023 + e
             top4 == ((v - Pow2(e)) * 16) \div Pow2(e)
         IN CASE k = 0 -> bexp \div 16
              [] k = 1 -> (bexp % 16) * 16 + top4
              [] OTHER -> 0

\* The position, counted from the most significant byte, of byte k of an
\* 8-byte element in memory.
MemByte(k) == IF big_endian THEN k ELSE 7 - k

\* The value of a plain char holding byte b.
CharValue(b) == IF char_signed /\ b >= 128 THEN b - 256 ELSE b

\* Lines 353-354: bins->data[n].  The data member of a PyArrayObject is a
\* char *, so data[n] is byte n of the buffer: byte n % 8 of element n / 8.
BinByteRead(bins, n) ==
    CharValue(Int64ByteMSB(bins[n \div 8], MemByte(n % 8)))

\* Lines 356 and 358: wsource->data[n] and bsource->data[n], read the same way
\* from a buffer of float64 elements.
SourceByteRead(source, n) ==
    CharValue(Float64ByteMSB(source[n \div 8], MemByte(n % 8)))

\* Lines 353-359: the loop body for sample n.
BinSample(acc, n) ==
    LET i == BinByteRead(bins_x, n)
        j == BinByteRead(bins_y, n)
        w == SourceByteRead(wsource, n)
        b == SourceByteRead(bsource, n)
    IN [ w |-> [acc.w EXCEPT ![i][j] = acc.w[i][j] + w],
         b |-> [acc.b EXCEPT ![i][j] = acc.b[i][j] + w * b],
         u |-> [acc.u EXCEPT ![i][j] = 1] ]

\* Lines 352-360: the loop over the samples.
RECURSIVE BinLoop(_, _)
BinLoop(acc, n) ==
    IF n >= Size(bins_x) THEN acc
    ELSE BinLoop(BinSample(acc, n), n + 1)

Accumulators == [ w |-> wresult, b |-> bresult, u |-> used ]

\* Py_Bin2DProfile on arrays of consistent shapes.
Bin2DProfile ==
    /\ b_calls < MaxCalls
    /\ \E acc \in { BinLoop(Accumulators, 0) } :
         /\ wresult' = acc.w
         /\ bresult' = acc.b
         /\ used' = acc.u
    /\ b_pre' = Accumulators
    /\ b_calls' = b_calls + 1
    /\ UNCHANGED << bins_x, bins_y, wsource, bsource, big_endian, char_signed >>

BinVals == {0, 1}
WeightVals == {1, 2}
FieldVals == {1, 3}
FillVals == {0, 5}

Grid2D(v) == [i \in Range(NumBinsX) |-> [j \in Range(NumBinsY) |-> v]]

InitBin ==
    /\ MergeIdle
    /\ CubeIdle
    /\ InterpIdle
    /\ m_result = "none"
    /\ big_endian \in BOOLEAN
    /\ char_signed \in BOOLEAN
    /\ \E n \in 0 .. MaxSamples :
         /\ bins_x \in [Range(n) -> BinVals]
         /\ bins_y \in [Range(n) -> BinVals]
         /\ wsource \in [Range(n) -> WeightVals]
         /\ bsource \in [Range(n) -> FieldVals]
    /\ \E fill \in FillVals :
         /\ wresult = Grid2D(fill)
         /\ bresult = Grid2D(2 * fill)
    /\ used = Grid2D(0)
    /\ b_calls = 0
    /\ b_pre = Accumulators

NextBin ==
    Bin2DProfile /\ UNCHANGED << mergeVars, cubeVars, interpVars, m_result >>

SpecBin == InitBin /\ [][NextBin]_vars

-----------------------------------------------------------------------------
(* DataCubeGeneric, DataCubeRefine, DataCubeReplace: lines 259-267, 387-584 *)
(*                                                                         *)
(* Edges and cell sizes are integers (a common unit of length); axes are   *)
(* 1, 2, 3 and a cell is a triple << x, y, z >>.  The double arithmetic of  *)
(* the code is exact on these except for the quotients fed to floorl and   *)
(* ceill: when the exact quotient is an integer q, the double the code     *)
(* computes may be q, slightly below q or slightly above q (with edges 0   *)
(* and cell sizes 0.1, (0 + 0.1*3 - 0)/0.1 is 3.0000000000000004).  fp_err  *)
(* gives, for edge k of the source grid's x axis, which of the three it is.*)

Max(a, b) == IF a > b THEN a ELSE b
Min(a, b) == IF a < b THEN a ELSE b

\* Mutant of dcRefine: the copy goes the other way.
dcRefine_reversed(val1, val2) == << val1, val1 >>

\* Lines 261-263: *val1 = *val2.  The result is the new << *val1, *val2 >>.
dcRefine(val1, val2) == << val2, val2 >>

\* Lines 265-267: *val2 = *val1.
dcReplace(val1, val2) == << val1, val1 >>

\* Lines 575 and 582: the function handed to DataCubeGeneric.
ToCall(rule, val1, val2) ==
    IF rule = "refine" THEN dcRefine(val1, val2) ELSE dcReplace(val1, val2)

\* ag_le[a] + ag_dx[a]*k: edge k of the source grid along axis a.
GridEdge(a, k) == g_le[a] + g_dx[a] * k

\* Lines 515-516, 520-521, 527-528.
AxisSkip(a, k) ==
    \/ GridEdge(a, k) > c_re[a]
    \/ GridEdge(a, k + 1) < c_le[a]

QuotErr(a, k) == IF a = 1 /\ k \in DOMAIN fp_err THEN fp_err[k] ELSE 0

\* floorl((ag_le[a] + ag_dx[a]*k - ac_le[a]) / ac_dx[a])
FloorQuot(a, k) ==
    LET num == GridEdge(a, k) - c_le[a]
        den == c_dx[a]
    IN IF num % den = 0 /\ QuotErr(a, k) < 0 THEN (num \div den) - 1
       ELSE num \div den

\* ceill((ag_le[a] + ag_dx[a]*k - ac_le[a]) / ac_dx[a])
CeilQuot(a, k) ==
    LET num == GridEdge(a, k) - c_le[a]
        den == c_dx[a]
    IN IF num % den = 0 THEN (num \div den) + (IF QuotErr(a, k) > 0 THEN 1 ELSE 0)
       ELSE (num \div den) + 1

\* Lines 517, 522, 529 and 518, 523, 530.
CMin(a, k) == Max(FloorQuot(a, k), 0)
CMax(a, k) == Min(CeilQuot(a, k + 1), c_dims[a])

\* Mutant of LeafSkip: include_non_leaf is ignored.
LeafSkip_ignoreFlag(g) == g_cm[g] = 0

\* Line 526.
LeafSkip(g) == (ll = 0) /\ (g_cm[g] = 0)

\* The continue statements of lines 515-528 for source cell g.
GridCellSkipped(g) ==
    \/ \E a \in 1 .. 3 : AxisSkip(a, g[a])
    \/ LeafSkip(g)

\* Mutant of CellAt: z is the outermost loop and x the innermost.
CellAt_zOutermost(n, lo, cnt) ==
    << lo[1] + (n % cnt[1]),
       lo[2] + ((n \div cnt[1]) % cnt[2]),
       lo[3] + (n \div (cnt[1] * cnt[2])) >>

\* Iteration n of three nested loops, x outermost and z innermost, that start
\* at lo and run cnt[1], cnt[2], cnt[3] times (lines 514-524 and 531-533).
CellAt(n, lo, cnt) ==
    << lo[1] + (n \div (cnt[2] * cnt[3])),
       lo[2] + ((n \div cnt[3]) % cnt[2]),
       lo[3] + (n % cnt[3]) >>

\* The start and the number of iterations of the loops of lines 531-533.
BoxLo(g) == << CMin(1, g[1]), CMin(2, g[2]), CMin(3, g[3]) >>
BoxCnt(g) ==
    << Max(CMax(1, g[1]) - CMin(1, g[1]), 0),
       Max(CMax(2, g[2]) - CMin(2, g[2]), 0),
       Max(CMax(3, g[3]) - CMin(3, g[3]), 0) >>

\* Lines 534-537: one call of to_call, and the count.
Combine(st, rule, g, c) ==
    LET r == ToCall(rule, st.cd[c], st.gd[g])
    IN [ cd  |-> [st.cd EXCEPT ![c] = r[1]],
         gd  |-> [st.gd EXCEPT ![g] = r[2]],
         tot |-> st.tot + 1,
         log |-> Append(st.log, << g, c >>) ]

\* Lines 531-540: the loops over the cube cells of source cell g's index box.
RECURSIVE CubeLoop(_, _, _, _, _, _)
CubeLoop(st, rule, g, lo, cnt, n) ==
    IF n >= cnt[1] * cnt[2] * cnt[3] THEN st
    ELSE CubeLoop(Combine(st, rule, g, CellAt(n, lo, cnt)),
                  rule, g, lo, cnt, n + 1)

\* Lines 514-543: the loops over the source cells.
RECURSIVE GridLoop(_, _, _)
GridLoop(st, rule, n) ==
    IF n >= g_dims[1] * g_dims[2] * g_dims[3] THEN st
    ELSE LET g == CellAt(n, << 0, 0, 0 >>, g_dims)
         IN IF GridCellSkipped(g) THEN GridLoop(st, rule, n + 1)
            ELSE GridLoop(CubeLoop(st, rule, g, BoxLo(g), BoxCnt(g), 0),
                          rule, n + 1)

\* The claims about the replace-refine round trip need two calls.
RoundTrip == << "replace", "refine" >>

\* DataCubeGeneric with to_call the function of `rule`, on arrays of valid shapes.
DataCubeGeneric(rule) ==
    /\ Len(c_calls) < Len(RoundTrip)
    /\ \E st \in { GridLoop([ cd |-> c_data, gd |-> g_data, tot |-> 0,
                             log |-> << >> ], rule, 0) } :
         /\ c_data' = st.cd
         /\ g_data' = st.gd
         /\ total' = st.tot
         /\ c_log' = st.log
    /\ c_pre' = [ g_data |-> g_data, c_data |-> c_data ]
    /\ c_calls' = Append(c_calls, rule)
    /\ UNCHANGED << g_le, g_dx, g_dims, g_cm, c_le, c_re, c_dx, c_dims, ll, fp_err >>
    /\ UNCHANGED << mergeVars, binVars, interpVars, m_result >>

\* Lines 572-577.
DataCubeRefine == DataCubeGeneric("refine")

\* Lines 579-584.
DataCubeReplace == DataCubeGeneric("replace")

\* The arguments of the model's calls.  The cube's left edge is the origin and
\* its right edge is consistent with its cell size and dimensions.  Along x
\* the source grid's left edge, both cell sizes and both dimensions vary; along
\* y and along z the two grids are one of the presets.
GridLeftsX == { -1, 0, 1, 3 }
CellSizes == { 1, 2 }
AxisPresets ==
    { [ g_le |-> 0, g_dx |-> 1, g_dim |-> 1, c_dx |-> 1, c_dim |-> 1 ],
      [ g_le |-> 0, g_dx |-> 1, g_dim |-> 2, c_dx |-> 2, c_dim |-> 1 ] }
ChildMasks == { "leaf", "refined", "odd", "even" }

Cells(dims) == Range(dims[1]) \X Range(dims[2]) \X Range(dims[3])

ChildMask(kind, g) ==
    CASE kind = "leaf" -> 1
      [] kind = "refined" -> 0
      [] kind = "odd" -> IF (g[1] + g[2] + g[3]) % 2 = 1 THEN 1 ELSE 0
      [] kind = "even" -> IF (g[1] + g[2] + g[3]) % 2 = 0 THEN 2 ELSE 0

GridValue(g) == 100 + 16 * g[1] + 4 * g[2] + g[3]
CubeValue(c) == 200 + 16 * c[1] + 4 * c[2] + c[3]

InitCube ==
    /\ MergeIdle
    /\ BinIdle
    /\ InterpIdle
    /\ m_result = "none"
    /\ \E lx \in GridLeftsX, gdx \in CellSizes, cdx \in CellSizes,
          gnx \in 1 .. MaxGridDim, cnx \in 1 .. MaxCubeDim,
          py \in AxisPresets, pz \in AxisPresets, kind \in ChildMasks :
         /\ g_le = << lx, py.g_le, pz.g_le >>
         /\ g_dx = << gdx, py.g_dx, pz.g_dx >>
         /\ g_dims = << gnx, py.g_dim, pz.g_dim >>
         /\ c_le = << 0, 0, 0 >>
         /\ c_dx = << cdx, py.c_dx, pz.c_dx >>
         /\ c_dims = << cnx, py.c_dim, pz.c_dim >>
         /\ c_re = << cdx * cnx, py.c_dx * py.c_dim, pz.c_dx * pz.c_dim >>
         /\ g_data = [g \in Cells(g_dims) |-> GridValue(g)]
         /\ g_cm = [g \in Cells(g_dims) |-> ChildMask(kind, g)]
         /\ c_data = [c \in Cells(c_dims) |-> CubeValue(c)]
         /\ fp_err \in [1 .. gnx -> {-1, 0, 1}]
    /\ ll \in {0, 1}
    /\ total = 0
    /\ c_calls = << >>
    /\ c_pre = [ g_data |-> g_data, c_data |-> c_data ]
    /\ c_log = << >>

NextCube == DataCubeRefine \/ DataCubeReplace

SpecCube == InitCube /\ [][NextCube]_vars

-----------------------------------------------------------------------------
(* Interpolate and Py_Interpolate, lines 590-684                           *)
(*                                                                         *)
(* A positive float64 v = 10^(h/2) is held as the integer v*v = 10^h, so   *)
(* that its logarithm is computed exactly: Log10Sq(v*v) = 2*log10(v).  All *)
(* logarithms of the model are the code's multiplied by two; the quotients *)
(* of two logarithms, which is all the code uses them for, are unchanged.  *)
(* Quotients are kept as a numerator and a denominator: the arithmetic of  *)
(* the model is exact, rounding of the double operations is not modelled.  *)

RECURSIVE Pow10(_)
Pow10(h) == IF h = 0 THEN 1 ELSE 10 * Pow10(h - 1)

\* log10 / log10l of the value held as n (lines 604, 605 and 609), times two.
RECURSIVE Log10Sq(_)
Log10Sq(n) == IF n < 10 THEN 0 ELSE 1 + Log10Sq(n \div 10)

\* The (int) cast of line 611 applied to num/den, den > 0: truncation toward
\* zero.
IntCast(num, den) == IF num >= 0 THEN num \div den ELSE - ((- num) \div den)

\* Lines 610-611.  span is logtem9 - logtem0, so that with
\* dlogtem = span/(n-1) of line 606 the quotient is (desired-logtem0)*(n-1)/span.
AxisInd(desired, logtem0, span, n) ==
    Min(n - 1, Max(0, IntCast((desired - logtem0) * (n - 1), span) + 1))

\* Lines 618-619: PyArray_GETPTR2(table, row, col) dereferenced.  A row outside
\* the table is memory outside the array and holds an arbitrary value.
TableRead(row, col, junk) ==
    IF row \in DOMAIN table THEN table[row][col] ELSE junk

\* Mutant of Lerp: the interpolation starts from the upper bracket's value.
Lerp_fromUpper(ki, kip, fnum, fden) ==
    [ num |-> kip * fden + fnum * (kip - ki), den |-> fden ]

\* Line 621: ki + (desired-t1)*(kip-ki)/tdef with (desired-t1)/tdef = fnum/fden,
\* as the fraction num/den.
Lerp(ki, kip, fnum, fden) ==
    [ num |-> ki * fden + fnum * (kip - ki), den |-> fden ]

\* Lines 616-622: the loop over the requested columns for query desired_num.
RECURSIVE ColumnLoop(_, _, _, _, _, _, _)
ColumnLoop(out, desired_num, axis_ind, fnum, fden, column, junk) ==
    IF column >= Size(columns) THEN out
    ELSE LET col_ind == columns[column]
             ki  == TableRead(axis_ind - 1, col_ind, junk)
             kip == TableRead(axis_ind, col_ind, junk)
         IN ColumnLoop([out EXCEPT ![desired_num][column] =
                                       Lerp(ki, kip, fnum, fden)],
                       desired_num, axis_ind, fnum, fden, column + 1, junk)

\* Lines 607-623: the loop over the queries.  With t1 of line 612 and tdef of
\* line 614, (desired - t1)/tdef = ((desired-logtem0)*(n-1) - (axis_ind-1)*span)/span.
RECURSIVE QueryLoop(_, _, _, _, _)
QueryLoop(st, desired_num, logtem0, span, junk) ==
    IF desired_num >= Size(desiredvals) THEN st
    ELSE LET n == Size(axis)
             desired == Log10Sq(desiredvals[desired_num])
             axis_ind == AxisInd(desired, logtem0, span, n)
             fnum == (desired - logtem0) * (n - 1) - (axis_ind - 1) * span
         IN QueryLoop([ out |-> ColumnLoop(st.out, desired_num, axis_ind,
                                           fnum, span, 0, junk),
                        log |-> Append(st.log,
                                  [ q |-> desired_num, lower |-> axis_ind - 1,
                                    upper |-> axis_ind ]),
                        oob |-> st.oob \/ (axis_ind - 1 \notin DOMAIN table)
                                       \/ (axis_ind \notin DOMAIN table) ],
                      desired_num + 1, logtem0, span, junk)

\* Lines 590-627, on an axis of at least two increasing points.
Interpolate(junk) ==
    LET logtem0 == Log10Sq(axis[0])
        logtem9 == Log10Sq(axis[Size(axis) - 1])
    IN QueryLoop([ out |-> outputvals, log |-> << >>, oob |-> FALSE ],
                 0, logtem0, logtem9 - logtem0, junk)

\* What a read outside the table may return; such a read needs a query whose
\* bracket leaves the table.
TableJunk ==
    IF \E q \in DOMAIN desiredvals :
          AxisInd(Log10Sq(desiredvals[q]), Log10Sq(axis[0]),
                  Log10Sq(axis[Size(axis) - 1]) - Log10Sq(axis[0]),
                  Size(axis)) = 0
    THEN {0, 7} ELSE {0}

\* Lines 629-684: the column-count check, then Interpolate; the output array
\* is written back when the call returns.
Py_Interpolate ==
    /\ t_calls < MaxCalls
    /\ IF Size(columns) # Size(outputvals[0])
       THEN /\ t_result' = "error"
            /\ t_log' = << >>
            /\ t_oob' = FALSE
            /\ UNCHANGED outputvals
       ELSE \E junk \in TableJunk :
              \E st \in { Interpolate(junk) } :
                 /\ outputvals' = st.out
                 /\ t_log' = st.log
                 /\ t_oob' = st.oob
                 /\ t_result' = "ok"
    /\ t_calls' = t_calls + 1
    /\ UNCHANGED << axis, table, desiredvals, columns >>

\* The arguments of the model's calls: log-uniform axes of two or three
\* points, 10^(h/2) for the exponents h below as queries, a table of
\* NumCols columns and a subset of its columns.
AxisLens == {2, 3}
AxisStarts == {0, 2, 4}
AxisSteps == {1, 2}
QueryExps == {0, 1, 2, 3, 4, 6, 8}
ColumnLists == { << 0 >>, << 1 >>, << 1, 0 >> }

TableValue(i, c) == IF c = 0 THEN 5 * Pow10(i) ELSE 9 + c - 2 * i

\* An output cell the kernel has not written.
Unwritten == [ num |-> -1, den |-> 1 ]

InitInterp ==
    /\ MergeIdle
    /\ BinIdle
    /\ CubeIdle
    /\ m_result = "none"
    /\ \E m \in AxisLens, h0 \in AxisStarts, dh \in AxisSteps :
         /\ axis = [i \in Range(m) |-> Pow10(h0 + dh * i)]
         /\ table = [i \in Range(m) |-> [c \in Range(NumCols) |-> TableValue(i, c)]]
    /\ \E k \in 1 .. MaxQueries, cl \in ColumnLists, extra \in {0, 1} :
         /\ \E qe \in [Range(k) -> QueryExps] :
              desiredvals = [q \in Range(k) |-> Pow10(qe[q])]
         /\ columns = [p \in Range(Len(cl)) |-> cl[p + 1]]
         /\ outputvals = [q \in Range(k) |->
                            [p \in Range(Len(cl) + extra) |-> Unwritten]]
    /\ t_result = "none"
    /\ t_calls = 0
    /\ t_log = << >>
    /\ t_oob = FALSE

NextInterp ==
    Py_Interpolate /\ UNCHANGED << mergeVars, binVars, cubeVars, m_result >>

SpecInterp == InitInterp /\ [][NextInterp]_vars

-----------------------------------------------------------------------------
(* Claims about CombineGrids, checked under SpecMerge *)

Called == m_calls >= 1

\* The source points that were valid when the latest call started.
ValidBefore == { i \in DOMAIN src_x : m_pre.src_x[i] >= 0 }

\* The (x_off, y_off, destination) triples whose fine coordinate, computed from
\* source point i, equals the destination's coordinate.
FinePairs(i) ==
    { t \in Range(refinement_factor) \X Range(refinement_factor) \X DOMAIN dst_x :
        /\ refinement_factor * m_pre.src_x[i] + t[1] = dst_x[t[3]]
        /\ refinement_factor * src_y[i] + t[2] = dst_y[t[3]] }

LogOf(i) == { k \in DOMAIN m_log : m_log[k].si = i }
HitsOn(j) == { k \in DOMAIN m_log : m_log[k].di = j }

\* C1: with r = 2 the returned match count is the number of (sub-offset,
\* destination point) pairs whose fine coordinate equals the destination
\* coordinate, summed over the valid source points: it is not the number of
\* source points.
C1_FanOutCount ==
    (Called /\ refinement_factor = 2) =>
        num_found = SumOver(ValidBefore,
                            [i \in ValidBefore |-> Cardinality(FinePairs(i))])

\* C1's case: one source point matched four destination points, one per sub-offset.
C1_Witness ==
    /\ m_calls = 1
    /\ refinement_factor = 2
    /\ \E i \in ValidBefore :
         /\ Cardinality(FinePairs(i)) = 4
         /\ Cardinality({ m_log[k].di : k \in LogOf(i) }) = 4
         /\ { << t[1], t[2] >> : t \in FinePairs(i) } = Range(2) \X Range(2)
    /\ num_found > Cardinality(ValidBefore)

DistinctDst ==
    \A j, k \in DOMAIN dst_x :
        j # k => << dst_x[j], dst_y[j] >> # << dst_x[k], dst_y[k] >>

\* Source i and destination j are matched by a same-level merge.
Matched(i, j) ==
    /\ m_pre.src_x[i] >= 0
    /\ dst_x[j] >= 0
    /\ m_pre.src_x[i] = dst_x[j]
    /\ src_y[i] = dst_y[j]

MatchedTo(j) == { i \in DOMAIN src_x : Matched(i, j) }

\* C2 as stated: with r = 1 and pairwise distinct destination coordinates, for
\* every matched pair (i, j) and channel c, dst.values[c][j] is its value before
\* the call plus src.values[c][i]; unmatched destination entries are unchanged.
C2_AsStated ==
    (Called /\ refinement_factor = 1 /\ DistinctDst) =>
        \A c \in DOMAIN dst_vals, j \in DOMAIN dst_x :
            /\ \A i \in MatchedTo(j) :
                 dst_vals[c][j] = m_pre.dst_vals[c][j] + src_vals[c][i]
            /\ MatchedTo(j) = {} => dst_vals[c][j] = m_pre.dst_vals[c][j]

\* C2 (amended): with r = 1 and pairwise distinct destination coordinates, for
\* every destination j and channel c, dst.values[c][j] is its value before the
\* call plus the sum of src.values[c][i] over all source points i matched to j;
\* unmatched destination entries are unchanged.
C2_MergeConservation ==
    (Called /\ refinement_factor = 1 /\ DistinctDst) =>
        \A c \in DOMAIN dst_vals, j \in DOMAIN dst_x :
            dst_vals[c][j] = m_pre.dst_vals[c][j]
                             + SumOver(MatchedTo(j),
                                       [i \in MatchedTo(j) |-> src_vals[c][i]])

\* C2's case: two source points matched the same destination entry, and another
\* destination entry was matched by none.
C2_Witness ==
    /\ m_calls = 1
    /\ refinement_factor = 1
    /\ DistinctDst
    /\ \E j \in DOMAIN dst_x : Cardinality(MatchedTo(j)) = 2
    /\ \E j \in DOMAIN dst_x : MatchedTo(j) = {} /\ dst_x[j] >= 0
    /\ num_found = 2

LogicalAnd(a, b) == CBool(Truthy(a) /\ Truthy(b))

\* C4 as stated: on every match, for r = 1 the new destination mask is the
\* logical AND of the source mask and the old destination mask; for r # 1 the
\* destination mask after the match equals its value before the match.
C4_AsStated ==
    \A k \in DOMAIN m_log :
        LET e == m_log[k] IN
        /\ refinement_factor = 1 =>
              e.new_mask = LogicalAnd(src_mask[e.si], e.old_mask)
        /\ refinement_factor # 1 => e.new_mask = e.old_mask

\* A match for r # 1 on a destination mask that is neither 0 nor 1.
C4_NonBooleanMaskMatched ==
    /\ refinement_factor # 1
    /\ \E k \in DOMAIN m_log : m_log[k].old_mask = 2 /\ m_log[k].new_mask = 1

\* The source points that had at least one match in the latest call.
FoundMatch == { i \in ValidBefore : FinePairs(i) # {} }

\* C5: after a call every source point that found a match has src.x = -1, and
\* a repeated call on the same buffers with the same r returns 0 and leaves
\* every destination weight, mask and value channel unchanged.
C5_Consumption ==
    /\ Called => \A i \in FoundMatch : src_x[i] = -1
    /\ m_calls >= 2 =>
         /\ num_found = 0
         /\ dst_wgt = m_pre.dst_wgt
         /\ dst_mask = m_pre.dst_mask
         /\ dst_vals = m_pre.dst_vals

\* C5's case: the second call, after a first call that found matches.
C5_Witness ==
    /\ m_calls = 2
    /\ m_pre.num_found > 0
    /\ \E i \in FoundMatch \cup DOMAIN src_x : src_x[i] = -1
    /\ num_found = 0

-----------------------------------------------------------------------------
(* Claims about Bin2DProfile, checked under SpecBin *)

SamplesIn(i, j) == { k \in DOMAIN bins_x : bins_x[k] = i /\ bins_y[k] = j }

\* C6: a call increases weight_sum[bin_row[k]][bin_col[k]] by weight[k] and
\* weighted_value_sum[bin_row[k]][bin_col[k]] by weight[k]*value[k] and sets
\* touched[bin_row[k]][bin_col[k]] to 1.0 for every sample k, the k-th elements
\* of the input arrays; cells that no sample indexes are unchanged.
C6_AsStated ==
    b_calls >= 1 =>
        \A i \in Range(NumBinsX), j \in Range(NumBinsY) :
            LET S == SamplesIn(i, j) IN
            /\ wresult[i][j] = b_pre.w[i][j] + SumOver(S, [k \in S |-> wsource[k]])
            /\ bresult[i][j] = b_pre.b[i][j]
                               + SumOver(S, [k \in S |-> wsource[k] * bsource[k]])
            /\ used[i][j] = IF S # {} THEN 1 ELSE b_pre.u[i][j]

-----------------------------------------------------------------------------
(* Claims about DataCubeRefine and DataCubeReplace, checked under SpecCube *)

CubeCalled == Len(c_calls) >= 1
LastCall == c_calls[Len(c_calls)]

\* Source cell g's extent meets the cube's extent on every axis, and g is a
\* leaf (nonzero child mask) or non-leaf cells are included.
NotSkipped(g) ==
    /\ \A a \in 1 .. 3 :
         /\ ~ (g_le[a] + g_dx[a] * g[a] > c_re[a])
         /\ ~ (g_le[a] + g_dx[a] * (g[a] + 1) < c_le[a])
    /\ (g_cm[g] # 0) \/ (ll # 0)

\* The cube cells of the index box of source cell g:
\* [max(floor((g_left - cube_left)/cube_dx), 0),
\*  min(ceil((g_right - cube_left)/cube_dx), cube_dim)) on every axis.
IndexBox(g) ==
    { c \in Cells(c_dims) :
        \A a \in 1 .. 3 :
            /\ Max(FloorQuot(a, g[a]), 0) <= c[a]
            /\ c[a] < Min(CeilQuot(a, g[a] + 1), c_dims[a]) }

VisitSet ==
    { p \in Cells(g_dims) \X Cells(c_dims) :
        NotSkipped(p[1]) /\ p[2] \in IndexBox(p[1]) }

Visited == { c_log[k] : k \in DOMAIN c_log }
VisitorsOf(c) == { g \in Cells(g_dims) : << g, c >> \in Visited }
VisitedBy(g) == { c \in Cells(c_dims) : << g, c >> \in Visited }

\* C7 as stated: refine copies the cube cell's value into the source cell and
\* leaves the cube data unchanged; replace copies the source cell's value into
\* the cube cell and leaves the source grid data unchanged.
C7_AsStated ==
    CubeCalled =>
        /\ LastCall = "refine" =>
             /\ c_data = c_pre.c_data
             /\ \A g \in Cells(g_dims) :
                  VisitedBy(g) # {} =>
                     g_data[g] \in { c_pre.c_data[c] : c \in VisitedBy(g) }
        /\ LastCall = "replace" =>
             /\ g_data = c_pre.g_data
             /\ \A c \in Cells(c_dims) :
                  VisitorsOf(c) # {} =>
                     c_data[c] \in { c_pre.g_data[g] : g \in VisitorsOf(c) }

\* C7 (amended): refine (DataCubeRefine) copies the source cell's value into
\* the cube cell and leaves the source grid data unchanged; replace
\* (DataCubeReplace) copies the cube cell's value into the source cell and
\* leaves the cube data unchanged.  Cells outside every visited pair keep
\* their values.
C7_RuleDirection ==
    CubeCalled =>
        /\ LastCall = "refine" =>
             /\ g_data = c_pre.g_data
             /\ \A c \in Cells(c_dims) :
                  IF VisitorsOf(c) # {}
                  THEN c_data[c] \in { c_pre.g_data[g] : g \in VisitorsOf(c) }
                  ELSE c_data[c] = c_pre.c_data[c]
        /\ LastCall = "replace" =>
             /\ c_data = c_pre.c_data
             /\ \A g \in Cells(g_dims) :
                  IF VisitedBy(g) # {}
                  THEN g_data[g] \in { c_pre.c_data[c] : c \in VisitedBy(g) }
                  ELSE g_data[g] = c_pre.g_data[g]

\* C7's case: a refine call that visited pairs and changed the cube.
C7_Witness ==
    /\ c_calls = << "refine" >>
    /\ total > 0
    /\ c_data # c_pre.c_data
    /\ \E c \in Cells(c_dims) : VisitorsOf(c) = {}

Coincident == g_le = c_le /\ g_dx = c_dx /\ g_dims = c_dims

\* C8: on coincident grids, replace and then refine with the same arguments
\* leave the cube data equal to its values before the two calls.
C8_AsStated ==
    (c_calls = RoundTrip /\ Coincident) =>
        c_data = [c \in Cells(c_dims) |-> CubeValue(c)]

Overlapping(c) == { g \in Cells(g_dims) : << g, c >> \in VisitSet }

\* g comes before h in the nested (x, y, z) iteration order.
Before(g, h) ==
    \/ g[1] < h[1]
    \/ g[1] = h[1] /\ g[2] < h[2]
    \/ g[1] = h[1] /\ g[2] = h[2] /\ g[3] < h[3]

LastVisited(S) == CHOOSE g \in S : \A h \in S : h = g \/ Before(h, g)

\* C10: after the call that writes into the cube (refine), a cube cell that
\* non-skipped source cells overlap holds the value of the overlapping source
\* cell visited last in the nested (x, y, z) order.
C10_LastWriteWins ==
    (CubeCalled /\ LastCall = "refine") =>
        \A c \in Cells(c_dims) :
            Overlapping(c) # {} =>
               c_data[c] = g_data[LastVisited(Overlapping(c))]

\* C10's case: several source cells wrote the same cube cell, and the last one
\* in (x, y, z) order is not the one with the largest z.
C10_Witness ==
    /\ c_calls = << "refine" >>
    /\ \E c \in Cells(c_dims) :
         /\ Cardinality(Overlapping(c)) >= 2
         /\ \E g \in Overlapping(c) : g[3] > LastVisited(Overlapping(c))[3]
         /\ c_data[c] = GridValue(LastVisited(Overlapping(c)))

-----------------------------------------------------------------------------
(* Claims about Interpolate, checked under SpecInterp *)

Interpolated == t_result = "ok"

\* The fraction r is the number v.
IsValue(r, v) == r.num = v * r.den

\* The axis [1, 10, 100] and the queries 10 and sqrt(1000), as they are held.
ExampleAxis == [i \in Range(3) |-> Pow10(2 * i)]
ExampleNode == Pow10(2)
ExampleMidpoint == Pow10(3)

\* C11: on a log-uniform axis of m >= 2 positive points, a query equal to
\* axis[i], i in [0, m-1), gets result[q][p] = table[i][columns[p]] for every
\* requested column p (exact arithmetic); with axis [1, 10, 100] and table
\* column 0 = [5, 50, 500] the query 10 gives 50 and the geometric midpoint of
\* 10 and 100 gives 275.
C11_NodeExactness ==
    Interpolated =>
        \A q \in DOMAIN desiredvals :
            /\ \A i \in 0 .. (Size(axis) - 2) :
                 desiredvals[q] = axis[i] =>
                    \A p \in DOMAIN columns :
                       IsValue(outputvals[q][p], table[i][columns[p]])
            /\ (axis = ExampleAxis /\ columns[0] = 0) =>
                 /\ desiredvals[q] = ExampleNode =>
                       IsValue(outputvals[q][0], 50)
                 /\ desiredvals[q] = ExampleMidpoint =>
                       IsValue(outputvals[q][0], 275)

\* C11's case: the example's axis, column 0 requested second of two columns,
\* and the queries 10 and sqrt(1000), answered 50 and 275.
C11_Witness ==
    /\ Interpolated
    /\ axis = ExampleAxis
    /\ table[1][0] = 50
    /\ Size(columns) = 2 /\ columns[1] = 0
    /\ Size(desiredvals) = 2
    /\ desiredvals[0] = ExampleNode /\ desiredvals[1] = ExampleMidpoint
    /\ outputvals[0][1] = [ num |-> 200, den |-> 4 ]
    /\ outputvals[1][1] = [ num |-> 1100, den |-> 4 ]
    /\ outputvals[0][0] # Unwritten

\* C13 as stated: for every positive query, below axis[0] and above axis[m-1]
\* included, the clamped upper bracket row idx and the lower bracket row
\* idx-1 read from the table are both rows in [0, m-1]; row -1 is never read.
C13_AsStated ==
    Interpolated =>
        /\ ~ t_oob
        /\ \A k \in DOMAIN t_log :
             /\ t_log[k].upper \in 0 .. (Size(axis) - 1)
             /\ t_log[k].lower \in 0 .. (Size(axis) - 1)

-----------------------------------------------------------------------------
(* Claims about the whole of Py_CombineGrids, checked under SpecArgs *)

\* Some array of a point set (y, mask, weight or a value channel) has another
\* length than the set's x array, or the channel list is empty, or the two
\* channel lists have different lengths.
InvalidArgs ==
    \/ Size(src_y) # Size(src_x)
    \/ Size(src_mask) # Size(src_x)
    \/ Size(src_wgt) # Size(src_x)
    \/ \E c \in DOMAIN src_vals : Size(src_vals[c]) # Size(src_x)
    \/ Size(dst_y) # Size(dst_x)
    \/ Size(dst_mask) # Size(dst_x)
    \/ Size(dst_wgt) # Size(dst_x)
    \/ \E c \in DOMAIN dst_vals : Size(dst_vals[c]) # Size(dst_x)
    \/ Size(src_vals) = 0
    \/ Size(dst_vals) # Size(src_vals)

\* C12 as stated: a call with invalid arguments fails with an error before
\* any computation and modifies no source or destination array.
C12_AsStated ==
    (m_calls >= 1 /\ InvalidArgs) =>
        /\ m_result = "error"
        /\ MutableBuffers = m_pre
        /\ m_log = << >>

-----------------------------------------------------------------------------
(* Memory safety of the merge loop, checked under SpecMerge *)

\* C14 as stated: when every array of a point set has its set's length
\* (src_len and dst_len may differ) and r >= 1, every element the merge loop
\* reads or writes is within its array; the source weight array is never
\* indexed at a position >= src_len.
C14_AsStated ==
    Called =>
        /\ ~ m_oob
        /\ \A k \in DOMAIN m_log : m_log[k].di < Size(src_wgt)

=============================================================================
